---- MODULE Spec2Model ----
(***************************************************************************)
(* Model of the CSV bulk-import parser of BulkUploadDialog (parseCSV) and   *)
(* of the dialog around it (file reading, upload attempts, results), and of *)
(* the authentication context and route guard in front of it.              *)
(* A JavaScript string is a sequence of one-character strings, so that     *)
(* trim, split and toLowerCase are computed character by character.        *)
(***************************************************************************)
EXTENDS Integers, Sequences, FiniteSets, TLC

VARIABLES
  csvData,        \* useState('') : the loaded text
  companies,      \* the result of the latest parseCSV call
  pc,             \* Spec only: idle, loaded, parsed or threw
  host,           \* the page that renders the dialog
  isOpen,         \* the isOpen prop (showBulkUpload / showUploadDialog)
  isUploading,    \* useState(false)
  uploadResults,  \* useState(null) : <<>> for null, <<response>> otherwise
  fileInput,      \* the file input of the open dialog: <<>> or <<text of the file>>
  reads,          \* the texts of the FileReader reads still pending
  requests,       \* the bulkUploadApi.upload calls still pending
  attempt,        \* history: the latest handleUpload invocation, <<>> if none
  nAttempts,      \* history: the number of handleUpload invocations
  parsedAs,       \* history: the outputs parseCSV gave, per text
  dismissed,      \* history: handleClose ran and no attempt started since
  user,           \* AuthProvider useState(null) : <<>> for null, <<user>> otherwise
  token,          \* AuthProvider useState(localStorage.getItem('token'))
  isLoading,      \* AuthProvider useState(true)
  storedToken,    \* localStorage item 'token' : <<>> when absent
  profileChecks,  \* the authApi.getProfile calls still pending, by token
  logins,         \* the authApi.login calls still pending, by account
  path            \* the location of the router

(* the state of the dialog and of its history *)
dialogVars ==
  <<host, isOpen, isUploading, uploadResults, fileInput, reads, requests,
    attempt, nAttempts, parsedAs, dismissed>>

(* the state of AuthProvider, of localStorage and of the router *)
authVars == <<user, token, isLoading, storedToken, profileChecks, logins, path>>

vars == <<csvData, companies, pc, dialogVars, authVars>>

----------------------------------------------------------------------------
(* String literals of the source                                           *)

s_name == <<"n", "a", "m", "e">>
s_boycott == <<"b", "o", "y", "c", "o", "t", "t">>
s_reason == <<"r", "e", "a", "s", "o", "n">>
s_country == <<"c", "o", "u", "n", "t", "r", "y">>
s_alternatives == <<"a", "l", "t", "e", "r", "n", "a", "t", "i", "v", "e", "s">>
s_barcodes == <<"b", "a", "r", "c", "o", "d", "e", "s">>
s_proofurls == <<"p", "r", "o", "o", "f", "u", "r", "l", "s">>
s_proof_urls == <<"p", "r", "o", "o", "f", "_", "u", "r", "l", "s">>
s_GLOBAL == <<"G", "L", "O", "B", "A", "L">>
s_true == <<"t", "r", "u", "e">>
s_yes == <<"y", "e", "s">>

(* The value of an out-of-range array read; no string equals it.           *)
undefined == <<"undefined">>

----------------------------------------------------------------------------
(* JavaScript string and array primitives                                  *)

WhiteSpace == {" ", "\t", "\n", "\r"}

UpperCase == <<"A", "B", "C", "D", "E", "F", "G", "H", "I", "J", "K", "L", "M",
               "N", "O", "P", "Q", "R", "S", "T", "U", "V", "W", "X", "Y", "Z">>

LowerCase == <<"a", "b", "c", "d", "e", "f", "g", "h", "i", "j", "k", "l", "m",
               "n", "o", "p", "q", "r", "s", "t", "u", "v", "w", "x", "y", "z">>

RECURSIVE trimStart(_)
trimStart(s) ==
  IF s # <<>> /\ Head(s) \in WhiteSpace THEN trimStart(Tail(s)) ELSE s

RECURSIVE trimEnd(_)
trimEnd(s) ==
  IF s # <<>> /\ s[Len(s)] \in WhiteSpace
    THEN trimEnd(SubSeq(s, 1, Len(s) - 1))
    ELSE s

(* String.prototype.trim *)
trim(s) == trimEnd(trimStart(s))

lowerChar(c) ==
  IF \E k \in 1..Len(UpperCase) : UpperCase[k] = c
    THEN LowerCase[CHOOSE k \in 1..Len(UpperCase) : UpperCase[k] = c]
    ELSE c

(* String.prototype.toLowerCase *)
toLowerCase(s) == [k \in 1..Len(s) |-> lowerChar(s[k])]

(* String.prototype.split with a one-character separator: never empty,     *)
(* ''.split(sep) is ['']                                                   *)
RECURSIVE split(_, _)
split(s, sep) ==
  IF \E k \in 1..Len(s) : s[k] = sep
    THEN LET k == CHOOSE k \in 1..Len(s) :
                    s[k] = sep /\ \A j \in 1..(k - 1) : s[j] # sep
         IN  <<SubSeq(s, 1, k - 1)>> \o split(SubSeq(s, k + 1, Len(s)), sep)
    ELSE <<s>>

(* arr[index], index counted from 1; undefined when out of range *)
at(arr, index) == IF index \in DOMAIN arr THEN arr[index] ELSE undefined

(* a string in a boolean context: undefined and '' are falsy *)
truthy(v) == v # undefined /\ v # <<>>

(* v || d *)
orElse(v, d) == IF truthy(v) THEN v ELSE d

(* v?.trim() *)
optTrim(v) == IF v = undefined THEN undefined ELSE trim(v)

(* arr.filter(x => x) on an array of strings *)
filterTruthy(arr) == SelectSeq(arr, LAMBDA x : truthy(x))

----------------------------------------------------------------------------
(* parseCSV                                                                *)

(* the record every row starts from *)
emptyCompany ==
  [name |-> <<>>, boycott |-> FALSE, reason |-> <<>>, country |-> s_GLOBAL,
   alternatives |-> <<>>, barcodes |-> <<>>, proofUrls |-> <<>>]

(* faulty variant: the token is trimmed but keeps its letter case *)
normalizeHeaderKeepCase(h) == trim(h)

(* h => h.trim().toLowerCase() *)
normalizeHeader(h) == toLowerCase(trim(h))

(* faulty variant: the field is read without the default *)
valueAtNoDefault(values, index) == at(values, index)

(* const value = values[index] || '' *)
valueAt(values, index) == orElse(at(values, index), <<>>)

(* faulty variant: the comparison minds the letter case *)
decodeBoycottCaseSensitive(value) == value = s_true \/ value = s_yes

(* case 'boycott' *)
decodeBoycott(value) ==
  toLowerCase(value) = s_true \/ toLowerCase(value) = s_yes

(* faulty variant: the field is taken as it is, without the default *)
decodeCountryNoDefault(value) == value

(* case 'country' *)
decodeCountry(value) == orElse(value, s_GLOBAL)

(* faulty variant: a missing country code stays empty *)
decodeAlternativeNoSentinel(alt) ==
  LET parts == split(trim(alt), ":")
  IN  [name        |-> orElse(optTrim(at(parts, 1)), <<>>),
       countryCode |-> orElse(optTrim(at(parts, 2)), <<>>),
       description |-> orElse(optTrim(at(parts, 3)), <<>>)]

(* alt => { const parts = alt.trim().split(':'); return {...} } *)
decodeAlternative(alt) ==
  LET parts == split(trim(alt), ":")
  IN  [name        |-> orElse(optTrim(at(parts, 1)), <<>>),
       countryCode |-> orElse(optTrim(at(parts, 2)), s_GLOBAL),
       description |-> orElse(optTrim(at(parts, 3)), <<>>)]

(* faulty variant: no alternative is filtered out *)
keepEveryAlternative(alt) == TRUE

(* .filter(alt => alt.name) *)
keepAlternative(alt) == truthy(alt.name)

(* value.split(';').map(...).filter(alt => alt.name) *)
decodeAlternatives(value) ==
  LET subs == split(value, ";")
      alts == [k \in 1..Len(subs) |-> decodeAlternative(subs[k])]
  IN  SelectSeq(alts, keepAlternative)

(* faulty variant: the empty tokens are not filtered out *)
decodeListKeepEmpty(value) ==
  IF truthy(value)
    THEN LET toks == split(value, ";")
         IN  [k \in 1..Len(toks) |-> trim(toks[k])]
    ELSE <<>>

(* value ? value.split(';').map(b => b.trim()).filter(b => b) : [] *)
decodeList(value) ==
  IF truthy(value)
    THEN LET toks == split(value, ";")
         IN  filterTruthy([k \in 1..Len(toks) |-> trim(toks[k])])
    ELSE <<>>

(* the body of the switch (header) statement *)
decodeColumn(company, header, value) ==
  CASE header = s_name    -> [company EXCEPT !.name = value]
    [] header = s_boycott -> [company EXCEPT !.boycott = decodeBoycott(value)]
    [] header = s_reason  -> [company EXCEPT !.reason = value]
    [] header = s_country -> [company EXCEPT !.country = decodeCountry(value)]
    [] header = s_alternatives ->
         IF truthy(value)
           THEN [company EXCEPT !.alternatives = decodeAlternatives(value)]
           ELSE company
    [] header = s_barcodes -> [company EXCEPT !.barcodes = decodeList(value)]
    [] header \in {s_proofurls, s_proof_urls} ->
         [company EXCEPT !.proofUrls = decodeList(value)]
    [] OTHER -> company

(* headers.forEach((header, index) => ...), from column index on *)
RECURSIVE forEachHeader(_, _, _, _)
forEachHeader(company, headers, values, index) ==
  IF index > Len(headers)
    THEN company
    ELSE forEachHeader(
           decodeColumn(company, headers[index], valueAt(values, index)),
           headers, values, index + 1)

(* lines[i].split(',').map(v => v.trim()) *)
rowValues(line) ==
  LET raw == split(line, ",") IN [k \in 1..Len(raw) |-> trim(raw[k])]

(* faulty variant: a line with fewer fields than the header is not decoded *)
decodeRowStrict(headers, line) ==
  IF Len(rowValues(line)) < Len(headers)
    THEN emptyCompany
    ELSE forEachHeader(emptyCompany, headers, rowValues(line), 1)

(* the company one loop iteration assembles from its line *)
decodeRow(headers, line) ==
  forEachHeader(emptyCompany, headers, rowValues(line), 1)

(* faulty variant: the filter tests the name alone *)
admitNameOnly(company) == truthy(company.name)

(* if (company.name && company.reason) *)
admit(company) == truthy(company.name) /\ truthy(company.reason)

(* faulty variant: the record is put in front *)
unshift(acc, company) == <<company>> \o acc

(* companies.push(company) *)
push(acc, company) == Append(acc, company)

(* for (let i = 1; i < lines.length; i++), lines counted from 1 here *)
RECURSIVE parseRows(_, _, _, _)
parseRows(lines, headers, i, acc) ==
  IF i > Len(lines)
    THEN acc
    ELSE LET company == decodeRow(headers, lines[i])
         IN  parseRows(lines, headers, i + 1,
                       IF admit(company) THEN push(acc, company) ELSE acc)

(* csvData.trim().split('\n') *)
splitLines(text) == split(trim(text), "\n")

(* the column keys the switch statement knows *)
knownKeys ==
  {s_name, s_boycott, s_reason, s_country, s_alternatives, s_barcodes,
   s_proofurls, s_proof_urls}

(* faulty variant: unknown tokens are removed, so later columns move up *)
headerRowKnownOnly(lines) ==
  LET raw == split(lines[1], ",")
  IN  SelectSeq([k \in 1..Len(raw) |-> normalizeHeader(raw[k])],
                LAMBDA h : h \in knownKeys)

(* lines[0].split(',').map(h => h.trim().toLowerCase()) *)
headerRow(lines) ==
  LET raw == split(lines[1], ",")
  IN  [k \in 1..Len(raw) |-> normalizeHeader(raw[k])]

(* faulty variant: the array lives outside the function and every call   *)
(* pushes onto what the call before it left                              *)
sharedCompanies == companies

(* const companies: CompanyFormData[] = [] *)
newCompanies == <<>>

(* faulty variant: the loop starts at the header line *)
parseCSVFromHeader(text) ==
  LET lines == splitLines(text)
  IN  parseRows(lines, headerRow(lines), 1, newCompanies)

parseCSV(text) ==
  LET lines == splitLines(text)
  IN  parseRows(lines, headerRow(lines), 2, newCompanies)

(* parseCSV raises a TypeError when it calls a method on undefined. The    *)
(* unguarded calls are lines[0].split, lines[i].split and, under a boycott *)
(* column, value.toLowerCase(); value.split is reached only for a truthy   *)
(* value and parts[n]?.trim() is optional                                  *)
parseThrows(text) ==
  LET lines == splitLines(text)
      headers == headerRow(lines)
  IN  \/ at(lines, 1) = undefined
      \/ \E i \in 2..Len(lines) :
           \/ at(lines, i) = undefined
           \/ \E k \in 1..Len(headers) :
                /\ headers[k] = s_boycott
                /\ valueAt(rowValues(lines[i]), k) = undefined

----------------------------------------------------------------------------
(* Input texts                                                             *)

RECURSIVE join(_, _)
join(parts, sep) ==
  IF parts = <<>> THEN <<>>
  ELSE IF Len(parts) = 1 THEN parts[1]
  ELSE parts[1] \o <<sep>> \o join(Tail(parts), sep)

(* header tokens joined by commas *)
headerLine(tokens) == join(tokens, ",")

(* a header line followed by data lines *)
text(header, rows) == join(<<header>> \o rows, "\n")

(* all sequences over S of length at most n *)
SeqsUpTo(S, n) == UNION { [1..k -> S] : k \in 0..n }

(* Bounds *)
MaxRows == 3
MaxLen == 5

(* Row structure: a few headers, up to MaxRows data lines drawn from rows  *)
(* that are complete, short, blank, padded or end in a carriage return;    *)
(* under the shorter headers the complete rows are longer than the header  *)
RowHeaders ==
  { <<s_name, s_reason>>,
    <<s_reason, s_name>>,
    <<s_name, s_boycott, s_reason, s_country>> }

RowChoices ==
  { <<"A", ",", "B">>,
    <<",", "B">>,
    <<"A">>,
    <<>>,
    <<" ", "C", " ", ",", " ", "D", " ">>,
    <<"A", ",", "y", "e", "s", ",", "B", ",", "I", "N">>,
    <<"A", ",", ",", "B">>,
    <<"A", ",", "B", "\r">> }

RowTexts ==
  { text(headerLine(h), rs) : h \in RowHeaders, rs \in SeqsUpTo(RowChoices, MaxRows) }

(* Field decoding: one row "A,B,<value>" under name,reason,<column>, the   *)
(* value ranging over every string of at most MaxLen characters            *)
FieldAlphabet == {"a", " ", ";", ":"}

FieldColumns == {s_alternatives, s_barcodes, s_proofurls, s_proof_urls, s_country}

FieldTexts ==
  { text(headerLine(<<s_name, s_reason, c>>), << <<"A", ",", "B", ",">> \o v >>) :
       c \in FieldColumns, v \in SeqsUpTo(FieldAlphabet, MaxLen) }

(* Boycott values *)
BoycottValues ==
  { <<"t", "r", "u", "e">>,
    <<"T", "R", "U", "E">>,
    <<"T", "r", "u", "e">>,
    <<"y", "e", "s">>,
    <<"Y", "e", "s">>,
    <<"Y", "E", "S">>,
    <<"n", "o">>,
    <<"f", "a", "l", "s", "e">>,
    <<"m", "a", "y", "b", "e">>,
    <<>>,
    <<" ", "y", "e", "s", " ">>,
    <<"y">>,
    <<"t", "r", "u", "e", "e">>,
    <<"o", "n">> }

BoycottTexts ==
  { text(headerLine(<<s_name, s_boycott, s_reason>>),
         << <<"A", ",">> \o v \o <<",", "B">> >>) : v \in BoycottValues }

(* Header spellings: letter case and surrounding whitespace *)
NameSpellings ==
  { <<"n", "a", "m", "e">>,
    <<"N", "A", "M", "E">>,
    <<" ", "N", "a", "m", "e", " ">> }

ReasonSpellings ==
  { <<"r", "e", "a", "s", "o", "n">>,
    <<"R", "E", "A", "S", "O", "N">>,
    <<"R", "e", "a", "s", "o", "n", " ">> }

CountrySpellings ==
  { <<"c", "o", "u", "n", "t", "r", "y">>,
    <<"C", "o", "u", "n", "t", "r", "y">>,
    <<" ", "C", "O", "U", "N", "T", "R", "Y">> }

HeaderRows ==
  { <<"A", ",", "B", ",", "I", "N">>,
    <<"C", ",", "D">>,
    <<"A", ",", ",", "I", "N">> }

HeaderTexts ==
  { text(headerLine(<<n, r, c>>), <<row>>) :
       n \in NameSpellings, r \in ReasonSpellings,
       c \in CountrySpellings, row \in HeaderRows }

(* The sample template: its header, the rows of downloadSampleCSV and the  *)
(* documented example rows                                                 *)
SampleHeader ==
  headerLine(<<s_name, s_boycott, s_reason, s_country, s_alternatives,
               s_barcodes, s_proofurls>>)

SampleRowA ==
  <<"S", "a", "m", "p", "l", "e", " ", "C", "o", "m", "p", "a", "n", "y", " ", "A", ",", "t", "r", "u", "e", ",", "E", "n", "v", "i", "r", "o", "n", "m", "e", "n", "t", "a", "l", " ", "c", "o", "n", "c", "e", "r", "n", "s", ",", "I", "N", ",", "\"", "D", "r", " ", "P", "e", "p", "p", "e", "r", ":", "I", "N", ":", "O", "r", "g", "a", "n", "i", "c", " ", "a", "l", "t", "e", "r", "n", "a", "t", "i", "v", "e", ";", "R", "C", " ", "C", "o", "l", "a", ":", "P", "K", ":", "L", "o", "c", "a", "l", " ", "b", "r", "a", "n", "d", "\"", ",", "1", "1", "1", "1", "1", "1", "1", "1", "1", "1", "1", "1", "1", ";", "2", "2", "2", "2", "2", "2", "2", "2", "2", "2", "2", "2", "2", ",", "h", "t", "t", "p", "s", ":", "/", "/", "e", "x", "a", "m", "p", "l", "e", ".", "c", "o", "m", "/", "a", "r", "t", "i", "c", "l", "e", "1">>

SampleRowB ==
  <<"S", "a", "m", "p", "l", "e", " ", "C", "o", "m", "p", "a", "n", "y", " ", "B", ",", "f", "a", "l", "s", "e", ",", "N", "o", " ", "c", "u", "r", "r", "e", "n", "t", " ", "i", "s", "s", "u", "e", "s", ",", "U", "S", ",", "\"", "L", "o", "c", "a", "l", " ", "B", "r", "a", "n", "d", ":", "U", "S", ":", "R", "e", "g", "i", "o", "n", "a", "l", " ", "a", "l", "t", "e", "r", "n", "a", "t", "i", "v", "e", "\"", ",", "3", "3", "3", "3", "3", "3", "3", "3", "3", "3", "3", "3", "3", ",", "h", "t", "t", "p", "s", ":", "/", "/", "e", "x", "a", "m", "p", "l", "e", ".", "c", "o", "m", "/", "a", "r", "t", "i", "c", "l", "e", "2">>

sampleData == text(SampleHeader, <<SampleRowA, SampleRowB>>)

RoundTripRow ==
  <<"S", "a", "m", "p", "l", "e", " ", "C", "o", ",", "t", "r", "u", "e", ",", "E", "n", "v", "i", "r", "o", "n", "m", "e", "n", "t", "a", "l", " ", "c", "o", "n", "c", "e", "r", "n", "s", ",", "I", "N", ",", "\"", "A", "l", "t", " ", "A", ":", "I", "N", ":", "d", "e", "s", "c", "\"", ",", "1", "1", "1", "1", "1", "1", "1", "1", "1", "1", "1", "1", ",", "h", "t", "t", "p", "s", ":", "/", "/", "x", ".", "t", "e", "s", "t", "/", "a">>

RoundTripText == text(SampleHeader, <<RoundTripRow>>)

BarcodesExample ==
  text(headerLine(<<s_name, s_reason, s_barcodes>>),
       <<<<"A", ",", "B", ",", "1", "1", "1", ";", "2", "2", "2", ";", " ", "3", "3", "3", " ">>>>)

ProofUrlsExample ==
  text(headerLine(<<s_name, s_reason, s_proof_urls>>),
       <<<<"A", ",", "B", ",", "1", "1", "1", ";", "2", "2", "2", ";", "3", "3", "3", ";">>>>)

AlternativesExample ==
  text(headerLine(<<s_name, s_reason, s_alternatives>>),
       <<<<"A", ",", "B", ",", "A", "l", "t", " ", "B", ":", "U", "S">>>>)

(* an alternative of four colon-separated parts and one without a country  *)
(* code                                                                    *)
FourPartExample ==
  text(headerLine(<<s_name, s_reason, s_alternatives>>),
       <<<<"A", ",", "B", ",", "X", ":", "I", "N", ":", "d", ":", "e", ";", "Y", ":", " ", ":", "f">>>>)

(* degenerate texts: empty, blank, a header alone with and without a       *)
(* newline after it                                                        *)
DegenerateTexts ==
  { <<>>,
    <<" ", "\n", "\t", "\r", "\n">>,
    headerLine(<<s_name, s_boycott, s_reason>>),
    headerLine(<<s_name, s_boycott, s_reason>>) \o <<"\n">>,
    headerLine(<<s_name, s_reason>>) \o <<"\r", "\n">> }

(* malformed texts: repeated header tokens, a header without name or       *)
(* reason, unknown columns, rows of commas only                            *)
MalformedTexts ==
  { text(headerLine(<<s_name, s_reason, s_name>>),
         <<<<"A", ",", "B", ",", "C">>, <<"A", ",", "B">>>>),
    text(headerLine(<<s_boycott, s_name, s_reason, s_boycott>>),
         <<<<"y", "e", "s", ",", "A", ",", "B", ",", "n", "o">>, <<"n", "o", ",", "C", ",", "D">>>>),
    text(headerLine(<<s_boycott, s_country>>),
         <<<<"y", "e", "s", ",", "I", "N">>, <<"n", "o">>>>),
    text(headerLine(<<<<"n", "o", "t", "e", "s">>, s_name, <<>>, s_reason>>),
         <<<<"n", "1", ",", "A", ",", ",", "B">>, <<",", ",", ",">>, <<",", "C", ",", "x", ",", "D", ",", "e", "x", "t", "r", "a">>>>) }

ExampleTexts ==
  { sampleData, RoundTripText, BarcodesExample, ProofUrlsExample,
    AlternativesExample, FourPartExample } \cup DegenerateTexts \cup MalformedTexts

Inputs == RowTexts \cup FieldTexts \cup BoycottTexts \cup HeaderTexts \cup ExampleTexts

----------------------------------------------------------------------------
(* The state machine: the dialog starts with no text, the selected file's  *)
(* text is loaded, and the loaded text is parsed                           *)

(* uploadResults = null *)
null == <<>>

(* the dialog as its useState calls create it, closed, with no history *)
DialogCreated ==
  /\ isOpen = FALSE
  /\ isUploading = FALSE
  /\ uploadResults = null
  /\ fileInput = <<>>
  /\ reads = {}
  /\ requests = {}
  /\ attempt = <<>>
  /\ nAttempts = 0
  /\ parsedAs = {}
  /\ dismissed = FALSE

(* a super_admin is signed in on the Companies page and nothing is pending *)
SignedIn ==
  /\ user = <<[role |-> "super_admin", permissions |-> {}]>>
  /\ token = <<"t0">>
  /\ storedToken = <<"t0">>
  /\ isLoading = FALSE
  /\ profileChecks = {}
  /\ logins = {}
  /\ path = "/"

Init ==
  /\ csvData = <<>>
  /\ companies = <<>>
  /\ pc = "idle"
  /\ host = "CompaniesPage"
  /\ DialogCreated
  /\ SignedIn

(* reader.onload: setCsvData(text) *)
FileLoaded ==
  /\ pc = "idle"
  /\ csvData' \in Inputs
  /\ pc' = "loaded"
  /\ UNCHANGED <<companies, dialogVars, authVars>>

(* const companies = parseCSV(csvData): it returns, or it raises *)
Parse ==
  /\ pc = "loaded"
  /\ IF parseThrows(csvData)
       THEN pc' = "threw" /\ UNCHANGED companies
       ELSE pc' = "parsed" /\ companies' = parseCSV(csvData)
  /\ UNCHANGED <<csvData, dialogVars, authVars>>

Next == FileLoaded \/ Parse

Spec == Init /\ [][Next]_vars

----------------------------------------------------------------------------
(* What a reader of the loaded text sees, independently of the decoding    *)

(* the loaded text as a reader sees it: its lines (header first), the      *)
(* header tokens trimmed and lower-cased, and the trimmed fields per line  *)
View ==
  LET lines == splitLines(csvData)
      toks == split(lines[1], ",")
  IN  [lines  |-> lines,
       keys   |-> [k \in 1..Len(toks) |-> toLowerCase(trim(toks[k]))],
       fields |-> [i \in 1..Len(lines) |->
                     LET raw == split(lines[i], ",")
                     IN  [k \in 1..Len(raw) |-> trim(raw[k])]]]

(* the data lines, by line index (the header is line 1) *)
DataRows(v) == 2..Len(v.lines)

(* the columns whose token is key once trimmed and lower-cased *)
Columns(v, key) == { k \in 1..Len(v.keys) : v.keys[k] = key }

(* the largest element of a non-empty set of numbers *)
Max(S) == CHOOSE x \in S : \A y \in S : y <= x

(* the trimmed field of line i under the last of the columns cols; empty   *)
(* when there is no such column or the line has too few fields             *)
FieldOf(v, i, cols) ==
  IF cols = {} THEN <<>>
  ELSE IF Max(cols) > Len(v.fields[i]) THEN <<>>
  ELSE v.fields[i][Max(cols)]

(* the trimmed field of line i under column key *)
Field(v, i, key) == FieldOf(v, i, Columns(v, key))

(* line i has a non-empty name and a non-empty reason *)
Admitted(v, i) == Field(v, i, s_name) # <<>> /\ Field(v, i, s_reason) # <<>>

(* the admitted data lines from line i on, in ascending order *)
RECURSIVE AdmittedFrom(_, _)
AdmittedFrom(v, i) ==
  IF i > Len(v.lines) THEN <<>>
  ELSE IF Admitted(v, i) THEN <<i>> \o AdmittedFrom(v, i + 1)
  ELSE AdmittedFrom(v, i + 1)

AdmittedRows(v) == AdmittedFrom(v, 2)

(* the row number under which the submission reports the k-th submitted    *)
(* record: the records carry no row field, so only the position is known   *)
submittedRow(k) == k

----------------------------------------------------------------------------
(* C1: parse emits a record for a data row if and only if the row's name   *)
(* and reason are both non-empty after trimming: there are exactly as many *)
(* records as such rows, and every record has a non-empty name and reason. *)
C1_AdmissionFilter ==
  pc = "parsed" =>
    LET v == View
    IN  /\ Len(companies) = Cardinality({ i \in DataRows(v) : Admitted(v, i) })
        /\ \A k \in DOMAIN companies :
             companies[k].name # <<>> /\ companies[k].reason # <<>>

(* a parsed text with an admitted row and a dropped row *)
C1_Witness ==
  /\ pc = "parsed"
  /\ LET v == View
     IN  \E i, j \in DataRows(v) : Admitted(v, i) /\ ~Admitted(v, j)

(* C2: the output is the sequence of the admitted rows' records in source  *)
(* order; a dropped row leaves no entry between those of its neighbours.   *)
C2_SourceOrder ==
  pc = "parsed" =>
    LET v == View
        adm == AdmittedRows(v)
    IN  /\ [k \in DOMAIN companies |-> <<companies[k].name, companies[k].reason>>]
             = [k \in DOMAIN adm |->
                  <<Field(v, adm[k], s_name), Field(v, adm[k], s_reason)>>]
        /\ \A j \in DataRows(v) :
             (/\ j - 1 \in DataRows(v) /\ j + 1 \in DataRows(v)
              /\ ~Admitted(v, j) /\ Admitted(v, j - 1) /\ Admitted(v, j + 1)) =>
               \E k \in DOMAIN companies :
                 /\ k + 1 \in DOMAIN companies
                 /\ companies[k].name = Field(v, j - 1, s_name)
                 /\ companies[k + 1].name = Field(v, j + 1, s_name)

(* a dropped row stands between two admitted rows of different names *)
C2_Witness ==
  /\ pc = "parsed"
  /\ Len(companies) >= 2
  /\ LET v == View
     IN  \E j \in DataRows(v) :
           /\ j - 1 \in DataRows(v) /\ j + 1 \in DataRows(v)
           /\ ~Admitted(v, j) /\ Admitted(v, j - 1) /\ Admitted(v, j + 1)
           /\ Field(v, j - 1, s_name) # Field(v, j + 1, s_name)

(* C3: the row number of every emitted record equals the 1-indexed source  *)
(* row it was parsed from, also after earlier rows were dropped.           *)
C3_RowNumberIsSourceRow ==
  pc = "parsed" =>
    LET adm == AdmittedRows(View)
    IN  \A k \in DOMAIN companies :
          k \in DOMAIN adm => submittedRow(k) = adm[k] - 1

(* C4: the round-trip row of the sample format parses to exactly one       *)
(* record with the row's values and the alternative Alt A / IN / desc,     *)
(* free of quote characters.                                               *)
C4_SampleRoundTrip ==
  (pc = "parsed" /\ csvData = RoundTripText) =>
    companies =
      << [name |-> <<"S", "a", "m", "p", "l", "e", " ", "C", "o">>,
          boycott |-> TRUE,
          reason |-> <<"E", "n", "v", "i", "r", "o", "n", "m", "e", "n", "t", "a", "l", " ", "c", "o", "n", "c", "e", "r", "n", "s">>,
          country |-> <<"I", "N">>,
          alternatives |->
            << [name |-> <<"A", "l", "t", " ", "A">>,
                countryCode |-> <<"I", "N">>,
                description |-> <<"d", "e", "s", "c">>] >>,
          barcodes |-> << <<"1", "1", "1", "1", "1", "1", "1", "1", "1", "1", "1", "1">> >>,
          proofUrls |-> << <<"h", "t", "t", "p", "s", ":", "/", "/", "x", ".", "t", "e", "s", "t", "/", "a">> >>] >>

(* the indices 1..n that satisfy Test, ascending *)
IndicesWhere(n, Test(_)) == SelectSeq([j \in 1..n |-> j], Test)

(* the trimmed, non-empty, semicolon-separated tokens of a field, in order *)
Tokens(value) ==
  LET toks == split(value, ";")
      kept == IndicesWhere(Len(toks), LAMBDA j : trim(toks[j]) # <<>>)
  IN  [m \in 1..Len(kept) |-> trim(toks[kept[m]])]

(* the n-th colon-separated part of a sub-field, trimmed; empty if missing *)
Part(sub, n) ==
  LET parts == split(sub, ":")
  IN  IF n <= Len(parts) THEN trim(parts[n]) ELSE <<>>

(* C5: the alternatives field is split on semicolons, each sub-field on    *)
(* colons into a trimmed name / countryCode / description, a missing       *)
(* description is the empty string, sub-fields with an empty name are      *)
(* dropped and the others keep their order.                                *)
C5_AlternativesDecoding ==
  pc = "parsed" =>
    LET v == View
        adm == AdmittedRows(v)
    IN  /\ Cardinality(Columns(v, s_alternatives)) = 1 =>
             \A k \in DOMAIN companies \cap DOMAIN adm :
               LET subs == split(Field(v, adm[k], s_alternatives), ";")
                   kept == IndicesWhere(Len(subs), LAMBDA j : Part(subs[j], 1) # <<>>)
                   alts == companies[k].alternatives
               IN  /\ Len(alts) = Len(kept)
                   /\ \A m \in DOMAIN alts \cap DOMAIN kept :
                        /\ alts[m].name = Part(subs[kept[m]], 1)
                        /\ alts[m].description = Part(subs[kept[m]], 3)
                        /\ Part(subs[kept[m]], 2) # <<>> =>
                             alts[m].countryCode = Part(subs[kept[m]], 2)
        /\ csvData = AlternativesExample =>
             companies[1].alternatives =
               << [name |-> <<"A", "l", "t", " ", "B">>,
                   countryCode |-> <<"U", "S">>,
                   description |-> <<>>] >>

(* two alternatives of different names are kept and a sub-field with an    *)
(* empty name is dropped                                                   *)
C5_Witness ==
  /\ pc = "parsed"
  /\ LET v == View
         adm == AdmittedRows(v)
     IN  /\ Cardinality(Columns(v, s_alternatives)) = 1
         /\ \E k \in DOMAIN companies \cap DOMAIN adm :
              /\ Len(companies[k].alternatives) >= 2
              /\ companies[k].alternatives[1].name # companies[k].alternatives[2].name
              /\ Len(split(Field(v, adm[k], s_alternatives), ";"))
                   > Len(companies[k].alternatives)

(* the columns holding proof URLs, under either key *)
ProofColumns(v) == Columns(v, s_proofurls) \cup Columns(v, s_proof_urls)

(* C6: barcodes, and proof URLs under either header key, decode to the     *)
(* trimmed, non-empty, semicolon-separated tokens of the field in order.   *)
C6_ListDecoding ==
  pc = "parsed" =>
    LET v == View
        adm == AdmittedRows(v)
    IN  /\ \A k \in DOMAIN companies \cap DOMAIN adm :
             /\ Cardinality(Columns(v, s_barcodes)) <= 1 =>
                  companies[k].barcodes = Tokens(Field(v, adm[k], s_barcodes))
             /\ Cardinality(ProofColumns(v)) <= 1 =>
                  companies[k].proofUrls = Tokens(FieldOf(v, adm[k], ProofColumns(v)))
        /\ csvData = BarcodesExample =>
             companies[1].barcodes = <<<<"1", "1", "1">>, <<"2", "2", "2">>, <<"3", "3", "3">>>>
        /\ csvData = ProofUrlsExample =>
             companies[1].proofUrls = <<<<"1", "1", "1">>, <<"2", "2", "2">>, <<"3", "3", "3">>>>

(* proof URLs under the key proof_urls: several tokens kept, an empty one  *)
(* dropped                                                                 *)
C6_Witness ==
  /\ pc = "parsed"
  /\ LET v == View
         adm == AdmittedRows(v)
     IN  /\ Columns(v, s_proof_urls) # {}
         /\ \E k \in DOMAIN companies \cap DOMAIN adm :
              /\ Len(companies[k].proofUrls) >= 2
              /\ companies[k].proofUrls[1] # companies[k].proofUrls[2]
              /\ Len(split(Field(v, adm[k], s_proof_urls), ";"))
                   > Len(companies[k].proofUrls)

(* the boycott values that read true or yes in some letter case *)
TrueSpellings ==
  { <<"t", "r", "u", "e">>,
    <<"T", "R", "U", "E">>,
    <<"T", "r", "u", "e">>,
    <<"y", "e", "s">>,
    <<"Y", "e", "s">>,
    <<"Y", "E", "S">>,
    <<" ", "y", "e", "s", " ">> }

(* the text of BoycottTexts whose boycott field is value *)
BoycottText(value) ==
  text(headerLine(<<s_name, s_boycott, s_reason>>),
       << <<"A", ",">> \o value \o <<",", "B">> >>)

(* C7: boycott is true exactly when the trimmed field is true or yes in    *)
(* any letter case; an empty or missing field and an absent column give    *)
(* false.                                                                  *)
C7_BoycottDecoding ==
  pc = "parsed" =>
    LET v == View
        adm == AdmittedRows(v)
    IN  /\ Cardinality(Columns(v, s_boycott)) <= 1 =>
             \A k \in DOMAIN companies \cap DOMAIN adm :
               companies[k].boycott =
                 (toLowerCase(Field(v, adm[k], s_boycott)) \in {s_true, s_yes})
        /\ \A value \in BoycottValues :
             csvData = BoycottText(value) =>
               /\ Len(companies) = 1
               /\ companies[1].boycott = (value \in TrueSpellings)

(* a record is flagged from a field that is not literally true or yes *)
C7_Witness ==
  /\ pc = "parsed"
  /\ LET v == View
         adm == AdmittedRows(v)
     IN  \E k \in DOMAIN companies \cap DOMAIN adm :
           /\ companies[k].boycott
           /\ Field(v, adm[k], s_boycott) \notin {s_true, s_yes}

(* C8: country is the trimmed field when it is non-empty and GLOBAL when   *)
(* the column is absent, the row too short or the field empty; it is never *)
(* the empty string.                                                       *)
C8_CountryDefault ==
  pc = "parsed" =>
    LET v == View
        adm == AdmittedRows(v)
    IN  \A k \in DOMAIN companies \cap DOMAIN adm :
          /\ companies[k].country # <<>>
          /\ Cardinality(Columns(v, s_country)) <= 1 =>
               companies[k].country =
                 IF Field(v, adm[k], s_country) = <<>>
                   THEN s_GLOBAL
                   ELSE Field(v, adm[k], s_country)

(* a record whose row ends before the country column, and is GLOBAL *)
C8_Witness ==
  /\ pc = "parsed"
  /\ LET v == View
         adm == AdmittedRows(v)
     IN  \E k \in DOMAIN companies \cap DOMAIN adm :
           /\ Columns(v, s_country) # {}
           /\ Len(v.fields[adm[k]]) < Max(Columns(v, s_country))
           /\ companies[k].country = s_GLOBAL

(* n commas *)
Commas(n) == [k \in 1..n |-> ","]

(* the text with every data line that has fewer fields than the header     *)
(* completed by empty fields                                               *)
PadRows(v) ==
  join([i \in 1..Len(v.lines) |->
          IF i >= 2 /\ Len(v.fields[i]) < Len(v.keys)
            THEN v.lines[i] \o Commas(Len(v.keys) - Len(v.fields[i]))
            ELSE v.lines[i]],
       "\n")

(* C9: a row with fewer fields than the header decodes as the same row     *)
(* completed by empty fields: the columns it lacks give false, GLOBAL and  *)
(* empty lists, and the columns it has keep their values.                  *)
C9_ShortRows ==
  pc = "parsed" =>
    LET v == View
        adm == AdmittedRows(v)
    IN  /\ companies = parseCSV(PadRows(v))
        /\ \A k \in DOMAIN companies \cap DOMAIN adm :
             LET n == Len(v.fields[adm[k]])
                 Beyond(cols) == cols # {} /\ \A c \in cols : c > n
             IN  /\ Beyond(Columns(v, s_boycott)) => ~companies[k].boycott
                 /\ Beyond(Columns(v, s_country)) => companies[k].country = s_GLOBAL
                 /\ Beyond(Columns(v, s_alternatives)) =>
                      companies[k].alternatives = <<>>
                 /\ Beyond(Columns(v, s_barcodes)) => companies[k].barcodes = <<>>
                 /\ Beyond(ProofColumns(v)) => companies[k].proofUrls = <<>>
                 /\ companies[k].name = Field(v, adm[k], s_name)
                 /\ companies[k].reason = Field(v, adm[k], s_reason)

(* a record emitted from a row that has fewer fields than the header *)
C9_Witness ==
  /\ pc = "parsed"
  /\ LET v == View
         adm == AdmittedRows(v)
     IN  \E k \in DOMAIN companies \cap DOMAIN adm :
           Len(v.fields[adm[k]]) < Len(v.keys)

(* the text with every header token trimmed and lower-cased *)
CanonicalHeader(v) ==
  join([i \in 1..Len(v.lines) |->
          IF i = 1 THEN headerLine(v.keys) ELSE v.lines[i]],
       "\n")

(* C10: header tokens are matched after trimming and lower-casing: a text  *)
(* parses to the same output as the text whose header tokens are written   *)
(* trimmed and in lower case.                                              *)
C10_HeaderNormalisation ==
  pc = "parsed" => companies = parseCSV(CanonicalHeader(View))

(* records are emitted under a header that is not written in its trimmed,  *)
(* lower-case form                                                         *)
C10_Witness ==
  /\ pc = "parsed"
  /\ Len(companies) >= 1
  /\ LET v == View IN split(v.lines[1], ",") # v.keys

(* the added column: " Id " in the header and, in the data lines, values  *)
(* that would mean something in a known column, changing with the line,   *)
(* every third one empty                                                   *)
ExtraToken == <<" ", "I", "d", " ">>

ExtraValue(i) ==
  IF i % 3 = 0 THEN <<>>
  ELSE IF i % 3 = 1 THEN <<"y", "e", "s">>
  ELSE <<" ", "a", ":", "b", ";", "c", " ">>

(* fields with x inserted as field p, after completing a shorter line      *)
InsertAt(fields, p, x) ==
  LET padded == [k \in 1..(IF Len(fields) < p - 1 THEN p - 1 ELSE Len(fields)) |->
                   IF k <= Len(fields) THEN fields[k] ELSE <<>>]
  IN  SubSeq(padded, 1, p - 1) \o <<x>> \o SubSeq(padded, p, Len(padded))

(* the text with a column added as column p: ExtraToken in the header and *)
(* ExtraValue(i) in data line i                                            *)
AddColumn(v, p) ==
  join([i \in 1..Len(v.lines) |->
          join(InsertAt(split(v.lines[i], ","), p,
                        IF i = 1 THEN ExtraToken ELSE ExtraValue(i)), ",")],
       "\n")

(* C11: a column with an unrecognized header token, added at any position  *)
(* with any values in its fields, leaves the output of parse unchanged.    *)
C11_UnknownColumnIgnored ==
  pc = "parsed" =>
    LET v == View
    IN  \A p \in 1..(Len(v.keys) + 1) :
          parseCSV(AddColumn(v, p)) = companies

(* a text that yields two records, whose known columns all move when the   *)
(* added column comes first                                                *)
C11_Witness ==
  /\ pc = "parsed"
  /\ Len(companies) >= 2
  /\ Len(View.keys) >= 2
  /\ AddColumn(View, 1) # csvData

(* C12: a text that, once trimmed, holds fewer than two lines (it is       *)
(* empty, blank, or a header alone, with or without a newline after it)    *)
(* parses to the empty sequence.                                           *)
C12_DegenerateInput ==
  (pc = "parsed" /\ \A k \in DOMAIN trim(csvData) : trim(csvData)[k] # "\n") =>
    companies = <<>>

(* a header alone, followed by a newline, has been parsed *)
C12_Witness ==
  /\ pc = "parsed"
  /\ trim(csvData) # <<>>
  /\ trim(csvData) # csvData
  /\ \A k \in DOMAIN trim(csvData) : trim(csvData)[k] # "\n"

(* C13: parse raises no exception, whatever the text: it returns a         *)
(* sequence of records whose fields are all defined.                       *)
C13_NeverThrows ==
  /\ pc # "threw"
  /\ pc = "parsed" =>
       \A k \in DOMAIN companies :
         /\ companies[k].boycott \in BOOLEAN
         /\ undefined \notin {companies[k].name, companies[k].reason,
                              companies[k].country}
         /\ \A a \in DOMAIN companies[k].alternatives :
              undefined \notin {companies[k].alternatives[a].name,
                                companies[k].alternatives[a].countryCode,
                                companies[k].alternatives[a].description}

(* parse has returned on a text with a blank line and a line that ends     *)
(* before the boycott column, whose value.toLowerCase() needs the default  *)
C13_Witness ==
  /\ pc = "parsed"
  /\ LET v == View
     IN  /\ \E i \in DataRows(v) : v.lines[i] = <<>>
         /\ \E i \in DataRows(v) :
              /\ v.lines[i] # <<>>
              /\ Columns(v, s_boycott) # {}
              /\ Len(v.fields[i]) < Max(Columns(v, s_boycott))

----------------------------------------------------------------------------
(* The dialog around the parser: the files a user selects, the submission  *)
(* service, and the handlers of BulkUploadDialog                           *)

(* bounds on the history: upload attempts made, file reads pending at once *)
MaxAttempts == 2

MaxReads == 2

(* two companies with a dropped row between them *)
ValidFile ==
  text(headerLine(<<s_name, s_reason>>),
       <<<<"A", ",", "B">>, <<",", "x">>, <<"C", ",", "D">>>>)

(* a header and nothing else *)
HeaderOnlyFile == headerLine(<<s_name, s_reason>>) \o <<"\n">>

(* white space and nothing else *)
BlankFile == <<" ", "\n">>

(* no character at all *)
EmptyFile == <<>>

Files == {ValidFile, HeaderOnlyFile, BlankFile, EmptyFile}

Hosts == {"CompaniesPage", "BulkUploadPage"}

(* ---- the submission service (bulkUploadApi.upload) ---- *)

(* the response to a submission: every record is reported once, under its  *)
(* row number, in results when it succeeded and in errors when it failed   *)
responseTo(payload, ok, success) ==
  LET n == Len(payload)
      good == IndicesWhere(n, LAMBDA k : ok[k])
      bad == IndicesWhere(n, LAMBDA k : ~ok[k])
  IN  [success |-> success,
       message |-> IF success THEN "Bulk upload completed" ELSE "Validation failed",
       results |-> [j \in 1..Len(good) |->
                      [row |-> submittedRow(good[j]), success |-> TRUE,
                       company |-> payload[good[j]].name, error |-> ""]],
       errors |-> [j \in 1..Len(bad) |->
                      [row |-> submittedRow(bad[j]), success |-> FALSE,
                       company |-> payload[bad[j]].name, error |-> "Name already exists"]],
       summary |-> [total |-> n, successful |-> Len(good), failed |-> Len(bad)]]

(* the responses a submission may resolve with *)
ServiceResponses(payload) ==
  { responseTo(payload, ok, success) :
      ok \in [1..Len(payload) -> BOOLEAN], success \in BOOLEAN }

(* the bodies (error.response.data) a submission may be rejected with; an  *)
(* absent field reads as the empty string or the empty list               *)
ServiceErrors ==
  { [message |-> "Validation failed", errors |-> <<>>, barcodeConflicts |-> <<>>],
    [message |-> "",
     errors |-> <<[row |-> 1, error |-> "Name is required", message |-> ""]>>,
     barcodeConflicts |-> <<>>],
    [message |-> "",
     errors |-> <<[row |-> 1, error |-> "", message |-> "Name is required"],
                  [row |-> 2, error |-> "", message |-> "Reason is required"]>>,
     barcodeConflicts |-> <<>>],
    [message |-> "", errors |-> <<>>,
     barcodeConflicts |-> <<[row |-> 1, company |-> "A", barcode |-> "",
                             conflicts |-> <<[company |-> "Z", barcodes |-> <<"111">>]>>]>>],
    [message |-> "", errors |-> <<>>, barcodeConflicts |-> <<>>] }

(* ---- the toasts ---- *)

(* Array.prototype.join(', ') as the pieces of the joined text *)
RECURSIVE joinPieces(_)
joinPieces(items) ==
  IF Len(items) = 0 THEN <<>>
  ELSE IF Len(items) = 1 THEN <<items[1]>>
  ELSE <<items[1], ", ">> \o joinPieces(Tail(items))

errorToast(pieces) == [kind |-> "error", text |-> pieces]

successToast(pieces) == [kind |-> "success", text |-> pieces]

pleaseUploadToast == errorToast(<<"Please upload a CSV file first">>)

noCompaniesToast == errorToast(<<"No valid companies found in CSV">>)

uploadFailedToast == errorToast(<<"Upload failed">>)

failedToUploadToast == errorToast(<<"Failed to upload companies">>)

(* the toast of the catch block for the body of a rejected submission *)
catchToast(data) ==
  IF data.message # ""
    THEN errorToast(<<"Upload failed: ", data.message>>)
  ELSE IF Len(data.errors) > 0
    THEN errorToast(<<"Upload failed: ">> \o
                    joinPieces([j \in DOMAIN data.errors |-> data.errors[j].message]))
  ELSE IF Len(data.barcodeConflicts) > 0
    THEN errorToast(<<"Barcode conflicts found: ">> \o
                    joinPieces([j \in DOMAIN data.barcodeConflicts |->
                                  data.barcodeConflicts[j].barcode]))
  ELSE failedToUploadToast

(* the toast after a submission resolved *)
responseToast(response) ==
  IF response.success
    THEN successToast(<<"Successfully uploaded ", ToString(response.summary.successful),
                        " companies">>)
    ELSE uploadFailedToast

(* ---- handleUpload, step by step ---- *)

(* faulty variant: the button ignores isUploading *)
uploadEnabledWhileUploading(data, uploading) == data # <<>>

(* the Upload button is enabled: disabled={!csvData || isUploading} *)
uploadEnabled(data, uploading) == data # <<>> /\ ~uploading

(* the guard of handleUpload: !csvData.trim() *)
noText(data) == trim(data) = <<>>

(* the arguments of the parseCSV calls one handleUpload makes *)
parseCallsTwice(data) == IF noText(data) THEN <<>> ELSE <<data, data>>

parseCalls(data) == IF noText(data) THEN <<>> ELSE <<data>>

(* the payloads of the bulkUploadApi.upload calls made for parsed records *)
submissionsPerRecord(parsed) == [k \in DOMAIN parsed |-> <<parsed[k]>>]

submissions(parsed) == IF Len(parsed) = 0 THEN <<>> ELSE <<parsed>>

(* faulty variant: the early return leaves without setIsUploading(false) *)
uploadingAfterNoFinally(calls) == TRUE

(* isUploading once handleUpload has reached its await or has returned:    *)
(* setIsUploading(true), then the finally block unless a call is awaited   *)
uploadingAfter(calls) == Len(calls) # 0

(* the calls made again after a submission was rejected: none *)
resubmissions(payload) == <<>>

(* try / catch / finally of handleUpload: every exception raised inside is *)
(* caught and none is raised again                                         *)
caught == TRUE

(* the state a freshly mounted dialog has *)
Mounted ==
  /\ csvData' = <<>>
  /\ isOpen' = FALSE
  /\ isUploading' = FALSE
  /\ uploadResults' = null
  /\ fileInput' = <<>>
  /\ reads' = {}

(* how many times parseCSV has been given the text of the j-th call when  *)
(* that call returns                                                       *)
nthParse(parsed, j) ==
  Cardinality({p \in parsedAs : p[1] = parsed[j]}) +
  Cardinality({i \in 1..j : parsed[i] = parsed[j]})

(* the record of one attempt *)
attemptOf(data, parsed, calls, toasts, threw) ==
  [text |-> data, parsed |-> parsed, calls |-> calls, toasts |-> toasts,
   outcome |-> <<>>, threw |-> threw]

DialogInit ==
  /\ csvData = <<>>
  /\ companies = <<>>
  /\ pc = "idle"
  /\ host \in Hosts
  /\ DialogCreated
  /\ SignedIn

(* the parent shows the dialog: setShowBulkUpload(true) *)
OpenDialog ==
  /\ ~isOpen
  /\ isOpen' = TRUE
  /\ UNCHANGED <<csvData, companies, pc, authVars, host, isUploading, uploadResults,
                 fileInput, reads, requests, attempt, nAttempts, parsedAs, dismissed>>

(* the user selects a file: reader.readAsText(file) *)
handleFileUpload ==
  /\ isOpen
  /\ Cardinality(reads) < MaxReads
  /\ \E file \in Files \ reads :
       /\ fileInput' = <<file>>
       /\ reads' = reads \cup {file}
  /\ UNCHANGED <<csvData, companies, pc, authVars, host, isOpen, isUploading,
                 uploadResults, requests, attempt, nAttempts, parsedAs, dismissed>>

(* reader.onload: setCsvData(text) *)
readerOnload ==
  /\ \E file \in reads :
       /\ csvData' = file
       /\ reads' = reads \ {file}
  /\ UNCHANGED <<companies, pc, authVars, host, isOpen, isUploading, uploadResults,
                 fileInput, requests, attempt, nAttempts, parsedAs, dismissed>>

(* a click on the Upload button, up to the await or the early return *)
handleUpload ==
  /\ isOpen
  /\ uploadEnabled(csvData, isUploading)
  /\ nAttempts < MaxAttempts
  /\ nAttempts' = nAttempts + 1
  /\ dismissed' = FALSE
  /\ IF noText(csvData)
       THEN /\ attempt' = <<attemptOf(csvData, <<>>, <<>>, <<pleaseUploadToast>>, FALSE)>>
            /\ UNCHANGED <<companies, isUploading, requests, parsedAs>>
       ELSE LET parsed == parseCalls(csvData)
            IN  /\ parsedAs' = parsedAs \cup
                                 { <<parsed[j], parseCSV(parsed[j]), nthParse(parsed, j)>> :
                                     j \in DOMAIN parsed }
                /\ IF \E j \in DOMAIN parsed : parseThrows(parsed[j])
                     THEN /\ attempt' = <<attemptOf(csvData, parsed, <<>>,
                                                    IF caught THEN <<failedToUploadToast>> ELSE <<>>,
                                                    ~caught)>>
                          /\ isUploading' = FALSE
                          /\ UNCHANGED <<companies, requests>>
                     ELSE LET result == parseCSV(csvData)
                              calls == submissions(result)
                          IN  /\ companies' = result
                              /\ attempt' = <<attemptOf(csvData, parsed, calls,
                                                        IF Len(result) = 0
                                                          THEN <<noCompaniesToast>>
                                                          ELSE <<>>,
                                                        FALSE)>>
                              /\ requests' = requests \cup
                                               { [attempt |-> nAttempts + 1, payload |-> calls[j]] :
                                                   j \in DOMAIN calls }
                              /\ isUploading' = uploadingAfter(calls)
  /\ UNCHANGED <<csvData, pc, authVars, host, isOpen, uploadResults, fileInput, reads>>

(* the history of the attempt a request belongs to, after its outcome *)
withOutcome(req, kind, data, toast, threw) ==
  IF attempt # <<>> /\ req.attempt = nAttempts
    THEN <<[attempt[1] EXCEPT !.outcome = <<[kind |-> kind, data |-> data]>>,
                              !.toasts = Append(@, toast),
                              !.threw = threw]>>
    ELSE attempt

(* the submission resolves: lines 112-119 and the finally block *)
UploadResolved ==
  \E req \in requests : \E response \in ServiceResponses(req.payload) :
    /\ requests' = requests \ {req}
    /\ attempt' = withOutcome(req, "resolved", response, responseToast(response), FALSE)
    /\ IF response.success /\ host = "BulkUploadPage"
         THEN (* onSuccess navigates to '/': this dialog goes, the one of    *)
              (* CompaniesPage is mounted                                    *)
              /\ host' = "CompaniesPage"
              /\ Mounted
         ELSE /\ uploadResults' = <<response>>
              /\ isUploading' = FALSE
              /\ UNCHANGED <<csvData, host, isOpen, fileInput, reads>>
    /\ UNCHANGED <<companies, pc, authVars, nAttempts, parsedAs, dismissed>>

(* the submission is rejected: the catch and the finally block *)
UploadRejected ==
  \E req \in requests, data \in ServiceErrors :
    /\ requests' = (requests \ {req}) \cup
                     { [attempt |-> req.attempt, payload |-> resubmissions(req.payload)[j]] :
                         j \in DOMAIN resubmissions(req.payload) }
    /\ attempt' = withOutcome(req, "rejected", data,
                              IF caught THEN catchToast(data) ELSE <<>>, ~caught)
    /\ isUploading' = FALSE
    /\ UNCHANGED <<csvData, companies, pc, authVars, host, isOpen, uploadResults,
                   fileInput, reads,
                   nAttempts, parsedAs, dismissed>>

(* the close button or Cancel *)
handleClose ==
  /\ isOpen
  /\ csvData' = <<>>
  /\ uploadResults' = null
  /\ isOpen' = FALSE
  /\ fileInput' = <<>>
  /\ dismissed' = TRUE
  /\ UNCHANGED <<companies, pc, authVars, host, isUploading, reads, requests, attempt,
                 nAttempts, parsedAs>>

(* ---- the results panel, rendered when uploadResults is not null ---- *)

(* the three counts of the summary *)
shownSummary(response) ==
  [successful |-> response.summary.successful,
   failed |-> response.summary.failed,
   total |-> response.summary.total]

(* the Errors list: "Row {error.row}: {error.error}" per entry of errors *)
failureList(response) ==
  [j \in DOMAIN response.errors |->
     [row |-> response.errors[j].row, text |-> response.errors[j].error]]

(* faulty variant: the list is rendered last entry first *)
successListReversed(response) ==
  [j \in DOMAIN response.results |->
     [row |-> response.results[Len(response.results) + 1 - j].row,
      text |-> response.results[Len(response.results) + 1 - j].company]]

(* the Successful Uploads list: "Row {result.row}: {result.company}" per   *)
(* entry of results                                                        *)
successList(response) ==
  [j \in DOMAIN response.results |->
     [row |-> response.results[j].row, text |-> response.results[j].company]]

DialogNext ==
  \/ OpenDialog
  \/ handleFileUpload
  \/ readerOnload
  \/ handleUpload
  \/ UploadResolved
  \/ UploadRejected
  \/ handleClose

DialogSpec == DialogInit /\ [][DialogNext]_vars

----------------------------------------------------------------------------
----------------------------------------------------------------------------
----------------------------------------------------------------------------
(* C16: each upload attempt issues at most one call to the submission      *)
(* service, carrying the whole parsed record sequence: the records are not *)
(* split into batches, no call is issued when parse returned no record,    *)
(* and once the call has failed no further call is issued for the attempt. *)
C16_SingleSubmission ==
  attempt # <<>> =>
    LET a == attempt[1]
        parsed == parseCSV(a.text)
    IN  /\ Len(a.calls) <= 1
        /\ a.calls # <<>> => a.calls = <<parsed>>
        /\ (a.parsed = <<>> \/ Len(parsed) = 0) => a.calls = <<>>
        /\ Cardinality({r \in requests : r.attempt = nAttempts}) <= Len(a.calls)
        /\ a.outcome # <<>> => \A r \in requests : r.attempt # nAttempts

(* the one call of an attempt carried two records and was rejected, and    *)
(* nothing is pending after it                                             *)
C16_Witness ==
  /\ attempt # <<>>
  /\ Len(attempt[1].calls) = 1
  /\ Len(attempt[1].calls[1]) = 2
  /\ attempt[1].outcome # <<>>
  /\ attempt[1].outcome[1].kind = "rejected"
  /\ requests = {}

----------------------------------------------------------------------------
(* the text has no data line: it is empty, blank, or a header alone *)
NoDataLine(data) ==
  \A k \in DOMAIN trim(data) : trim(data)[k] # "\n"

(* C17: an upload attempt on an empty or header-only file is surfaced as   *)
(* the message 'No valid companies found in CSV', throws nothing and       *)
(* submits nothing. An attempt on a file of white space only is answered   *)
(* 'Please upload a CSV file first' instead, and with a file of no         *)
(* characters the Upload button stays disabled.                            *)
C17_StructuralErrorMessage ==
  (attempt # <<>> /\ NoDataLine(attempt[1].text)) =>
    /\ attempt[1].toasts =
         <<[kind |-> "error", text |-> <<"No valid companies found in CSV">>]>>
    /\ ~attempt[1].threw
    /\ attempt[1].calls = <<>>

----------------------------------------------------------------------------
(* what the service returned with a failure: its message and the texts of  *)
(* its error list                                                          *)
ReturnedMessage(outcome) == outcome.data.message

ReturnedErrors(outcome) ==
  { IF outcome.kind = "resolved" \/ outcome.data.errors[j].error # ""
      THEN outcome.data.errors[j].error
      ELSE outcome.data.errors[j].message : j \in DOMAIN outcome.data.errors }

StructuredError(outcome) ==
  \/ ReturnedMessage(outcome) # ""
  \/ ReturnedErrors(outcome) # {}
  \/ outcome.kind = "rejected" /\ Len(outcome.data.barcodeConflicts) > 0

(* the texts in front of the user: the pieces of the toasts of the attempt *)
(* and the rows of the Errors list of the results panel                    *)
ShownTexts(a) ==
  UNION { {a.toasts[t].text[k] : k \in DOMAIN a.toasts[t].text} : t \in DOMAIN a.toasts }
    \cup (IF isOpen /\ uploadResults # null
            THEN {uploadResults[1].errors[j].error : j \in DOMAIN uploadResults[1].errors}
            ELSE {})

GenericToasts ==
  { [kind |-> "error", text |-> <<"Upload failed">>],
    [kind |-> "error", text |-> <<"Failed to upload companies">>] }

(* C18: on every submission failure, a rejected call or a response with    *)
(* success = false, the user is shown the message or the error list the    *)
(* service returned, verbatim; a generic message is shown only when the    *)
(* service returned no structured error; and no exception leaves           *)
(* handleUpload.                                                           *)
C18_FailureRelayed ==
  (/\ attempt # <<>>
   /\ attempt[1].outcome # <<>>
   /\ ~dismissed
   /\ \/ attempt[1].outcome[1].kind = "rejected"
      \/ ~attempt[1].outcome[1].data.success) =>
    LET a == attempt[1]
        o == a.outcome[1]
    IN  /\ StructuredError(o) =>
             \/ ReturnedMessage(o) # "" /\ ReturnedMessage(o) \in ShownTexts(a)
             \/ ReturnedErrors(o) # {} /\ ReturnedErrors(o) \subseteq ShownTexts(a)
             \/ /\ ReturnedMessage(o) = ""
                /\ ReturnedErrors(o) = {}
                /\ \A j \in DOMAIN o.data.barcodeConflicts :
                     o.data.barcodeConflicts[j].conflicts[1].barcodes[1] \in ShownTexts(a)
        /\ (\E t \in DOMAIN a.toasts : a.toasts[t] \in GenericToasts) => ~StructuredError(o)
        /\ ~a.threw

----------------------------------------------------------------------------
(* the row numbers of a rendered list, in the order shown *)
RowsOf(list) == [j \in DOMAIN list |-> list[j].row]

Ascending(rows) == \A i \in DOMAIN rows, j \in DOMAIN rows : i < j => rows[i] < rows[j]

----------------------------------------------------------------------------
(* C20: once the user has dismissed the dialog (handleClose), the import   *)
(* outcomes are discarded and uploadResults stays null until a later       *)
(* upload attempt is started, even if a submission was still in flight     *)
(* when the dialog was dismissed.                                          *)
C20_DismissedStaysNull ==
  dismissed => uploadResults = null

----------------------------------------------------------------------------
(* C21: when a new upload is started while the outcomes of a previous      *)
(* upload are held, the previous outcomes are discarded: from the start of *)
(* the new attempt on, also after it fails or finds no valid record,       *)
(* uploadResults holds nothing but the response to the latest attempt.     *)
C21_PreviousDiscarded ==
  (attempt # <<>> /\ uploadResults # null) =>
    attempt[1].outcome = <<[kind |-> "resolved", data |-> uploadResults[1]]>>

----------------------------------------------------------------------------
(* C23: a file read still pending when the user leaves the dialog is       *)
(* cancelled in effect: its completion after handleClose does not change   *)
(* the dialog state, so while the dialog is closed, where no file can be   *)
(* selected, csvData stays empty.                                          *)
C23_ClosedStaysEmpty ==
  ~isOpen => csvData = <<>>

----------------------------------------------------------------------------
(* C24: after an upload whose response arrived, the per-row results are    *)
(* shown and stay shown until the user dismisses the dialog, whether the   *)
(* dialog was opened from the Companies page or from the Bulk Upload page. *)
C24_ResultsStayShown ==
  (/\ attempt # <<>>
   /\ attempt[1].outcome # <<>>
   /\ attempt[1].outcome[1].kind = "resolved"
   /\ ~dismissed) =>
    /\ isOpen
    /\ uploadResults = <<attempt[1].outcome[1].data>>

----------------------------------------------------------------------------
(* C25: at most one submission request of the dialog is in flight at any   *)
(* time, and while isUploading is true no handleUpload starts, under any   *)
(* interleaving of clicks, file selections, closing and reopening.         *)
C25_OneInFlight ==
  /\ [](Cardinality(requests) <= 1 /\ (requests # {} => isUploading))
  /\ [][isUploading => nAttempts' = nAttempts]_vars

(* a submission is in flight while the dialog is open on a loaded text and *)
(* a further attempt is within the bound explored                          *)
C25_Witness ==
  /\ Cardinality(requests) = 1
  /\ isUploading
  /\ isOpen
  /\ trim(csvData) # <<>>
  /\ nAttempts < MaxAttempts

----------------------------------------------------------------------------
(* C26: every upload attempt leaves isUploading false on every exit path   *)
(* (blank text, no valid record, success, failure payload, rejected call)  *)
(* once its submission, if any, has settled: isUploading is true exactly   *)
(* while a submission of the dialog is unsettled.                          *)
C26_UploadingWhileUnsettled ==
  /\ isUploading <=> requests # {}
  /\ (attempt # <<>> /\ (attempt[1].calls = <<>> \/ attempt[1].outcome # <<>>)) =>
       ~isUploading

(* a first attempt has settled and a second one has ended without a        *)
(* submission, on a text with no valid record                              *)
C26_Witness ==
  /\ nAttempts = 2
  /\ attempt[1].parsed # <<>>
  /\ attempt[1].calls = <<>>
  /\ uploadResults # null
  /\ ~isUploading

----------------------------------------------------------------------------
(* C27: when several files are selected in succession, once all pending    *)
(* reads have completed csvData holds the text of the file selected last,  *)
(* whatever the order the reads complete in.                               *)
C27_LastSelectedWins ==
  (fileInput # <<>> /\ reads = {}) => csvData = fileInput[1]

----------------------------------------------------------------------------
(* The authentication context (AuthProvider), the route guard              *)
(* (ProtectedRoute) and the places where the import UI is rendered         *)

(* the user records the service knows; permissions is the set of the names *)
(* that user.permissions maps to true                                      *)
Users ==
  { [role |-> "super_admin", permissions |-> {}],
    [role |-> "admin", permissions |-> {"canBulkUpload", "canCreateCompanies"}],
    [role |-> "moderator", permissions |-> {"canViewAnalytics"}] }

Roles == {"super_admin", "admin", "moderator"}

PermissionNames == {"canBulkUpload", "canCreateCompanies", "canManageUsers"}

(* the accounts a login is tried with and the tokens the service issues *)
Accounts == {"a", "b"}

IssuedTokens == {"t0", "t1"}

Paths == {"/", "/bulk-upload", "/login"}

(* faulty variant: a permission missing from the map counts as granted *)
hasPermissionByDefault(u, permission) ==
  IF u = null THEN FALSE ELSE TRUE

(* hasPermission of the context, for the user state u *)
hasPermission(u, permission) ==
  IF u = null THEN FALSE
  ELSE IF u[1].role = "super_admin" THEN TRUE
  ELSE permission \in u[1].permissions

(* hasRole of the context; a single role is the set of that one role *)
hasRole(u, allowedRoles) ==
  IF u = null THEN FALSE ELSE u[1].role \in allowedRoles

(* faulty variant: the role requirement is not checked *)
ProtectedRouteNoRole(loading, u, requirePermission, requireRole, fallback) ==
  IF loading THEN "spinner"
  ELSE IF u = null THEN "/login"
  ELSE IF requirePermission # <<>> /\ ~hasPermission(u, requirePermission[1])
    THEN IF fallback THEN "fallback" ELSE "/"
  ELSE "children"

(* what ProtectedRoute renders: the spinner, a redirect to /login or to /, *)
(* the fallback, or its children; an absent requirement is <<>>            *)
ProtectedRoute(loading, u, requirePermission, requireRole, fallback) ==
  IF loading THEN "spinner"
  ELSE IF u = null THEN "/login"
  ELSE IF requirePermission # <<>> /\ ~hasPermission(u, requirePermission[1])
    THEN IF fallback THEN "fallback" ELSE "/"
  ELSE IF requireRole # <<>> /\ ~hasRole(u, requireRole[1])
    THEN IF fallback THEN "fallback" ELSE "/"
  ELSE "children"

(* the guard of the route of a page: the Bulk Upload page requires         *)
(* canBulkUpload, the Companies page a signed-in user                      *)
routeGuard(p) ==
  IF p = "/bulk-upload" THEN <<"canBulkUpload">> ELSE <<>>

(* the pieces of the import UI rendered at path p for the user state u *)
importUI(p, loading, u) ==
  LET page == p # "/login" /\ ProtectedRoute(loading, u, routeGuard(p), <<>>, FALSE) = "children"
  IN  (IF page /\ hasPermission(u, "canBulkUpload")
         THEN {"navigation entry"} ELSE {})
      \cup
      (IF page /\ p = "/" /\ hasPermission(u, "canBulkUpload")
         THEN {"CompaniesPage button", "CompaniesPage dialog"} ELSE {})
      \cup
      (IF page /\ p = "/bulk-upload"
         THEN {"BulkUploadPage button", "BulkUploadPage dialog"} ELSE {})

(* the effect on [token]: after a change of token, a profile check is      *)
(* started for a token, and loading ends at once without one               *)
checksAfter(before, after) ==
  IF after # before /\ after # null THEN profileChecks \cup {after[1]} ELSE profileChecks

loadingAfter(before, after, loading) ==
  IF after # before /\ after = null THEN FALSE ELSE loading

AuthInit ==
  /\ csvData = <<>>
  /\ companies = <<>>
  /\ pc = "idle"
  /\ host = "CompaniesPage"
  /\ DialogCreated
  /\ user = null
  /\ storedToken \in {null, <<"t0">>}
  /\ token = storedToken
  /\ isLoading = (token # null)
  /\ profileChecks = (IF token # null THEN {token[1]} ELSE {})
  /\ logins = {}
  /\ path = "/"

(* login(email, password) up to its await *)
login ==
  /\ \E account \in Accounts \ logins : logins' = logins \cup {account}
  /\ UNCHANGED <<csvData, companies, pc, dialogVars, user, token, isLoading,
                 storedToken, profileChecks, path>>

(* authApi.login settles: with a token and a user, or without *)
LoginSettled ==
  \E account \in logins :
    /\ logins' = logins \ {account}
    /\ \/ \E t \in IssuedTokens, u \in Users :
            /\ token' = <<t>>
            /\ user' = <<u>>
            /\ storedToken' = <<t>>
            /\ profileChecks' = checksAfter(token, <<t>>)
            /\ UNCHANGED isLoading
       \/ UNCHANGED <<user, token, isLoading, storedToken, profileChecks>>
    /\ UNCHANGED <<csvData, companies, pc, dialogVars, path>>

(* the Logout button of Layout, rendered around the guarded pages:         *)
(* logout() and navigate('/login')                                         *)
handleLogout ==
  /\ path # "/login"
  /\ ProtectedRoute(isLoading, user, <<>>, <<>>, FALSE) = "children"
  /\ user' = null
  /\ token' = null
  /\ storedToken' = null
  /\ isLoading' = loadingAfter(token, null, isLoading)
  /\ path' = "/login"
  /\ UNCHANGED <<csvData, companies, pc, dialogVars, profileChecks, logins>>

(* authApi.getProfile settles: with the user of the token, or as invalid *)
ProfileSettled ==
  \E t \in profileChecks :
    /\ profileChecks' = profileChecks \ {t}
    /\ isLoading' = FALSE
    /\ \/ \E u \in Users :
            /\ user' = <<u>>
            /\ UNCHANGED <<token, storedToken>>
       \/ /\ storedToken' = null
          /\ token' = null
          /\ UNCHANGED user
    /\ UNCHANGED <<csvData, companies, pc, dialogVars, logins, path>>

(* a link, a redirect or the address bar *)
Navigate ==
  /\ \E p \in Paths \ {path} : path' = p
  /\ UNCHANGED <<csvData, companies, pc, dialogVars, user, token, isLoading,
                 storedToken, profileChecks, logins>>

AuthNext == login \/ LoginSettled \/ handleLogout \/ ProfileSettled \/ Navigate

AuthSpec == AuthInit /\ [][AuthNext]_vars

----------------------------------------------------------------------------
(* C28: in every reachable state of AuthProvider, under any interleaving   *)
(* of login, logout and the profile check started when the token changes,  *)
(* a non-null user implies a non-null token equal to the token kept in     *)
(* localStorage.                                                           *)
C28_UserImpliesToken ==
  user # null => (token # null /\ token = storedToken)

----------------------------------------------------------------------------
(* the requirements a route may state: none, a permission; none, one role  *)
(* or a list of roles                                                      *)
PermissionRequirements == {<<>>} \cup {<<p>> : p \in PermissionNames}

RoleRequirements == {<<>>} \cup {<<rs>> : rs \in SUBSET Roles}

(* the user u is granted permission p, has one of the roles rs *)
Granted(u, p) == u[1].role = "super_admin" \/ p \in u[1].permissions

InRoles(u, rs) == u[1].role \in rs

(* C29 as stated: ProtectedRoute renders its children only when loading    *)
(* has finished, a user is present and the required permission and role,   *)
(* if any, hold; with no user it redirects to /login whatever the          *)
(* requirements; hasPermission and hasRole are false for every argument    *)
(* when no user is present.                                                *)
C29_RouteGuardAsStated ==
  \A rp \in PermissionRequirements, rr \in RoleRequirements, fb \in BOOLEAN :
    /\ ProtectedRoute(isLoading, user, rp, rr, fb) = "children" =>
         /\ ~isLoading
         /\ user # null
         /\ rp # <<>> => Granted(user, rp[1])
         /\ rr # <<>> => InRoles(user, rr[1])
    /\ user = null => ProtectedRoute(isLoading, user, rp, rr, fb) = "/login"
    /\ user = null =>
         /\ \A p \in PermissionNames : ~hasPermission(user, p)
         /\ \A rs \in SUBSET Roles : ~hasRole(user, rs)

(* C29 amended: while auth is loading ProtectedRoute renders the spinner,  *)
(* with or without a user; once loading has finished, with no user it      *)
(* redirects to /login whatever the requirements, and it renders its       *)
(* children only when a user is present and the required permission and    *)
(* role, if any, hold; hasPermission and hasRole are false for every       *)
(* argument when no user is present.                                       *)
C29_RouteGuard ==
  \A rp \in PermissionRequirements, rr \in RoleRequirements, fb \in BOOLEAN :
    /\ isLoading => ProtectedRoute(isLoading, user, rp, rr, fb) = "spinner"
    /\ ProtectedRoute(isLoading, user, rp, rr, fb) = "children" <=>
         /\ ~isLoading
         /\ user # null
         /\ rp # <<>> => Granted(user, rp[1])
         /\ rr # <<>> => InRoles(user, rr[1])
    /\ (user = null /\ ~isLoading) =>
         ProtectedRoute(isLoading, user, rp, rr, fb) = "/login"
    /\ user = null =>
         /\ \A p \in PermissionNames : ~hasPermission(user, p)
         /\ \A rs \in SUBSET Roles : ~hasRole(user, rs)

(* loading has finished for a moderator, who passes a permission           *)
(* requirement and fails a role requirement                                *)
C29_Witness ==
  /\ ~isLoading
  /\ user # null
  /\ user[1].role = "moderator"
  /\ ProtectedRoute(isLoading, user, <<>>, <<{"super_admin", "admin"}>>, FALSE) = "/"
  /\ ProtectedRoute(isLoading, user, <<>>, <<{"moderator"}>>, FALSE) = "children"

----------------------------------------------------------------------------
----------------------------------------------------------------------------
(* the country code of a sub-field: its trimmed second colon-separated     *)
(* part, or GLOBAL when that is empty or missing                           *)
CountryCodeOf(sub) ==
  IF Part(sub, 2) # <<>> THEN Part(sub, 2) ELSE s_GLOBAL

(* C30: in every alternative triple emitted by parse, countryCode is the   *)
(* trimmed second colon-separated part when that is non-empty and GLOBAL   *)
(* otherwise, no emitted alternative has an empty countryCode, and the     *)
(* triple holds the first three parts only: any part after the third is    *)
(* discarded.                                                              *)
C30_CountryCodeSentinel ==
  pc = "parsed" =>
    LET v == View
        adm == AdmittedRows(v)
    IN  /\ \A k \in DOMAIN companies :
             \A m \in DOMAIN companies[k].alternatives :
               companies[k].alternatives[m].countryCode # <<>>
        /\ Cardinality(Columns(v, s_alternatives)) = 1 =>
             \A k \in DOMAIN companies \cap DOMAIN adm :
               LET subs == split(Field(v, adm[k], s_alternatives), ";")
                   kept == IndicesWhere(Len(subs), LAMBDA j : Part(subs[j], 1) # <<>>)
                   alts == companies[k].alternatives
               IN  \A m \in DOMAIN alts \cap DOMAIN kept :
                     alts[m] = [name        |-> Part(subs[kept[m]], 1),
                                countryCode |-> CountryCodeOf(subs[kept[m]]),
                                description |-> Part(subs[kept[m]], 3)]
        /\ csvData = FourPartExample =>
             companies[1].alternatives =
               << [name |-> <<"X">>, countryCode |-> <<"I", "N">>,
                   description |-> <<"d">>],
                  [name |-> <<"Y">>, countryCode |-> s_GLOBAL,
                   description |-> <<"f">>] >>

(* a row whose alternatives field holds a sub-field of four parts with a   *)
(* country code and a sub-field whose second part is blank                 *)
C30_Witness ==
  /\ pc = "parsed"
  /\ LET v == View
         adm == AdmittedRows(v)
     IN  /\ Cardinality(Columns(v, s_alternatives)) = 1
         /\ \E k \in DOMAIN companies \cap DOMAIN adm :
              LET subs == split(Field(v, adm[k], s_alternatives), ";")
                  alts == companies[k].alternatives
              IN  /\ Len(alts) = 2
                  /\ Len(subs) = 2
                  /\ Len(split(subs[1], ":")) = 4
                  /\ Part(subs[1], 4) # <<>>
                  /\ alts[1].countryCode = Part(subs[1], 2)
                  /\ alts[1].countryCode # s_GLOBAL
                  /\ split(subs[2], ":")[2] # <<>>
                  /\ alts[2].countryCode = s_GLOBAL

====
